---------------------------- MODULE Spec2Model ----------------------------
(***************************************************************************)
(* The spotify-proxy worker (src/src/types.d.ts): one fetch() entry point  *)
(* with a bearer-key gate, an OAuth setup/callback pair that keeps its     *)
(* state in a key-value store, and read-only data endpoints.               *)
(*                                                                         *)
(* Every request runs in a slot.  A step of the model is the code of one   *)
(* request between two awaits on something outside the request (the store  *)
(* or the upstream service); steps of different slots interleave.          *)
(***************************************************************************)
EXTENDS Integers, Sequences, FiniteSets, TLC

VARIABLES
  env,        \* the worker's secrets (Env), fixed for a behaviour
  kv,         \* SPOTIFY_DATA: key -> entry, or Absent
  usedCodes,  \* upstream: authorization codes already redeemed
  req,        \* slot -> the request it handles
  pc,         \* slot -> where the request's handler stands
  loc,        \* slot -> the handler's local variables
  resp,       \* slot -> the response, once the request has ended
  log,        \* slot -> what the request did (gate, handler, operations)
  fate,       \* state value -> never issued, pending, expired or consumed
  writer,     \* the slot whose request put the present token record, or 0
  checked,    \* state value -> the slots whose request found its present issue
  issued      \* state value -> the origin and the query of its latest Initiate

vars == <<env, kv, usedCodes, req, pc, loc, resp, log, fate, writer, checked, issued>>

\* JavaScript's null / undefined.
NULL == "<null>"

\* !!v of JavaScript for a string or null.
Truthy(v) == v # NULL /\ v # ""

---------------------------------------------------------------------------
\* Bounded input sets.

Slots == {1, 2}

Methods == {"GET", "POST", "OPTIONS"}

Paths ==
  {"/", "/credentials", "/setup", "/callback", "/now-playing", "/recent",
   "/health", "/other"}

ApiKeys == {NULL, "", "k1"}

AuthHeaders == {NULL, "", "Basic k1", "Bearer ", "Bearer k1", "Bearer k12"}

\* The origins the worker is served on (a custom domain and workers.dev).
Origins == {"https://a.dev", "https://b.io"}

HomeOrigin == "https://a.dev"

\* Values generateRandomString(16) may return.
States == {"s1", "s2"}

\* How many authorization codes the upstream has handed to the browser.
NumCodes == 2

Codes == {<<"c1", "c2", "c3">>[i] : i \in 1..NumCodes}

Envs ==
  [API_KEY : ApiKeys,
   SPOTIFY_CLIENT_ID : {NULL, "cid"},
   SPOTIFY_CLIENT_SECRET : {NULL, "shh"}]

\* A request: the origin of its URL, method, path, Authorization header and
\* the query parameters the callback reads.  The query is kept only on
\* /callback.
Requests ==
  { q \in [origin : Origins, method : Methods, path : Paths, auth : AuthHeaders,
           code : Codes \cup {NULL, ""}, state : States \cup {NULL, ""},
           error : {NULL, "", "access_denied"}] :
      q.path # "/callback" => (q.code = NULL /\ q.state = NULL /\ q.error = NULL) }

\* Requests without a query: every method, path and Authorization header.
GateRequests ==
  { q \in Requests :
      q.origin = HomeOrigin /\ q.code = NULL /\ q.state = NULL /\ q.error = NULL }

\* The requests of a browser that holds the configured key, with any query
\* whose code and state are absent or set.
FlowRequests ==
  { q \in Requests :
      /\ q.origin = HomeOrigin
      /\ q.code # "" /\ q.state # ""
      /\ q.auth = "Bearer k1"
      /\ q.method = (IF q.path = "/setup" THEN q.method ELSE "GET")
      /\ q.method # "OPTIONS" }

\* The OAuth flow on any origin: initiations, and callbacks that carry a
\* code and a state.
OriginRequests ==
  { q \in Requests :
      /\ q.auth = NULL
      /\ \/ q.path = "/setup" /\ q.method = "POST"
         \/ q.path = "/callback" /\ q.method = "GET" /\ Truthy(q.code)
              /\ Truthy(q.state) /\ q.error = NULL }

\* Initiations and callbacks with every query: each of code, state and error
\* absent, empty or set.
QueryRequests ==
  { q \in Requests :
      /\ q.origin = HomeOrigin
      /\ q.auth = NULL
      /\ \/ q.path = "/setup" /\ q.method = "POST"
         \/ q.path = "/callback" /\ q.method = "GET" }

\* The OAuth flow on one origin.
OAuthRequests == { q \in OriginRequests : q.origin = HomeOrigin }

NoReq ==
  [origin |-> NULL, method |-> NULL, path |-> NULL, auth |-> NULL, code |-> NULL,
   state |-> NULL, error |-> NULL]

---------------------------------------------------------------------------
\* Responses.  body is the text (or the kind of page), location the target
\* of a redirect, data the fields of a JSON payload as <<name, value>> pairs.

Response(status, body) ==
  [status |-> status, body |-> body, location |-> NULL, data |-> {}]

Redirect(url) ==
  [status |-> 302, body |-> "", location |-> url, data |-> {}]

\* A redirect to url with the query parameters params.
RedirectQuery(url, params) ==
  [status |-> 302, body |-> "", location |-> url, data |-> params]

Json(status, data) ==
  [status |-> status, body |-> "json", location |-> NULL, data |-> data]

NoResp == [status |-> 0, body |-> NULL, location |-> NULL, data |-> {}]

\* A request that ended with a rejected promise nobody caught.
Uncaught == [status |-> 0, body |-> "uncaught exception", location |-> NULL, data |-> {}]

---------------------------------------------------------------------------
\* The store.

TokenKey == "spotify_tokens"

StateKey(s) == "oauth_state_" \o s

Keys == {StateKey(s) : s \in States} \cup {TokenKey}

Absent == [value |-> NULL, ttl |-> 0]

\* KVNamespace.get
KVget(store, k) == store[k].value

\* KVNamespace.put with expirationTtl
KVput(store, k, v, ttl) == [store EXCEPT ![k] = [value |-> v, ttl |-> ttl]]

\* KVNamespace.delete
KVdelete(store, k) == [store EXCEPT ![k] = Absent]

---------------------------------------------------------------------------
\* The authentication gate.

startsWithBearer(h) == Len(h) >= 7 /\ SubSeq(h, 1, 7) = "Bearer "

slice7(h) == SubSeq(h, 8, Len(h))

GateMissing ==
  Json(401, {<<"error", "Missing Authorization header. Include 'Authorization: Bearer YOUR_API_KEY' in your request.">>})

GateFormat ==
  Json(401, {<<"error", "Invalid Authorization header format. Use 'Authorization: Bearer YOUR_API_KEY'.">>})

GateNotConfigured ==
  Json(500, {<<"error", "API key not configured. Please set up via Cloudflare dashboard.">>})

GateInvalid == Json(401, {<<"error", "Invalid API key.">>})

\* requireApiKey accepting every key that begins with the configured one.
requireApiKey_prefixMatch(authHeader, e) ==
  IF ~Truthy(authHeader) THEN GateMissing
  ELSE IF ~startsWithBearer(authHeader) THEN GateFormat
  ELSE IF ~Truthy(e.API_KEY) THEN GateNotConfigured
  ELSE IF \/ Len(slice7(authHeader)) < Len(e.API_KEY)
          \/ SubSeq(slice7(authHeader), 1, Len(e.API_KEY)) # e.API_KEY
    THEN GateInvalid
  ELSE NoResp

\* requireApiKey without the test that a key is configured.
requireApiKey_noConfigTest(authHeader, e) ==
  IF ~Truthy(authHeader) THEN GateMissing
  ELSE IF ~startsWithBearer(authHeader) THEN GateFormat
  ELSE IF slice7(authHeader) # e.API_KEY THEN GateInvalid
  ELSE NoResp

\* requireApiKey: a response, or NoResp (null) to let the request proceed.
requireApiKey(authHeader, e) ==
  IF ~Truthy(authHeader) THEN GateMissing
  ELSE IF ~startsWithBearer(authHeader) THEN GateFormat
  ELSE IF ~Truthy(e.API_KEY) THEN GateNotConfigured
  ELSE IF slice7(authHeader) # e.API_KEY THEN GateInvalid
  ELSE NoResp

\* The allow-list without the callback, and with a data endpoint added.
publicEndpoints_noCallback == {"/health", "/credentials", "/setup"}

publicEndpoints_withData ==
  {"/health", "/credentials", "/setup", "/callback", "/now-playing"}

publicEndpoints == {"/health", "/credentials", "/setup", "/callback"}

\* Whether fetch() calls the gate for this request.
GateCalled(q) == q.method # "OPTIONS" /\ q.path \notin publicEndpoints

Routes ==
  {"/", "/setup", "/credentials", "/callback", "/now-playing", "/recent", "/health"}

\* fetch() up to the handler: the response it returns itself (preflight,
\* gate, 404), or NoResp when it hands the request to the path's handler.
fetch(q, e) ==
  IF q.method = "OPTIONS" THEN Response(200, "")
  ELSE IF GateCalled(q) /\ requireApiKey(q.auth, e) # NoResp
    THEN requireApiKey(q.auth, e)
  ELSE IF q.path \in Routes THEN NoResp
  ELSE Response(404, "Not Found")

\* The handler fetch() runs for the request, or NULL.
Handler(q, e) == IF fetch(q, e) = NoResp THEN q.path ELSE NULL


---------------------------------------------------------------------------
\* Helpers of the handlers.

StateTtl == 600

TokenTtl == 3600

hasSpotifyCredentials(e) ==
  Truthy(e.SPOTIFY_CLIENT_ID) /\ Truthy(e.SPOTIFY_CLIENT_SECRET)

\* The token payload the upstream returns for a code, and no payload.
TokenFor(c) == [access_token |-> "at_" \o c, refresh_token |-> "rt_" \o c]

NoData == [access_token |-> NULL, refresh_token |-> NULL]

TokenPayloads == {TokenFor(c) : c \in Codes}

JSONstringify(d) ==
  "{access_token:" \o d.access_token \o ",refresh_token:" \o d.refresh_token \o "}"

JSONparse(s) == CHOOSE d \in TokenPayloads : JSONstringify(d) = s

\* getStoredTokens: the parsed record, or NoData (null).
getStoredTokens(store) ==
  IF Truthy(KVget(store, TokenKey)) THEN JSONparse(KVget(store, TokenKey)) ELSE NoData

\* encodeURIComponent on the characters of a redirect URI: letters, digits
\* and "." stay, ":" and "/" are escaped.
encodeChar(c) == IF c = ":" THEN "%3A" ELSE IF c = "/" THEN "%2F" ELSE c

RECURSIVE encodeURIComponent(_)
encodeURIComponent(s) ==
  IF s = "" THEN ""
  ELSE encodeChar(SubSeq(s, 1, 1)) \o encodeURIComponent(SubSeq(s, 2, Len(s)))

\* The exchange naming the origin alone.
exchangeRedirectUri_noPath(q) == q.origin

\* redirectUri of handleSetup and of exchangeCodeForTokens: each is computed
\* from the URL of the request at hand.
setupRedirectUri(q) == q.origin \o "/callback"

exchangeRedirectUri(q) == q.origin \o "/callback"

\* encodeURIComponent(redirectUri) for each redirect URI handleSetup may
\* compute, as a table.
encodedRedirectUri ==
  [u \in {setupRedirectUri([origin |-> o]) : o \in Origins} |-> encodeURIComponent(u)]

\* The query of the authorization URL (scope left out).
authParams(e, redirectUri, state) ==
  {<<"response_type", "code">>, <<"client_id", e.SPOTIFY_CLIENT_ID>>,
   <<"redirect_uri", encodedRedirectUri[redirectUri]>>, <<"state", state>>}

NoLoc ==
  [storedState |-> NULL, data |-> NoData, tokens |-> NoData, status |-> 0,
   redirectUri |-> NULL]

\* No Initiate has issued the state value.
NoIssue == [origin |-> NULL, params |-> {}]

NoLog == [gate |-> FALSE, handler |-> NULL, ops |-> <<>>, failed |-> FALSE]

\* The log of a request that fetch() handed to its handler.
Handled(q) == [gate |-> GateCalled(q), handler |-> q.path, ops |-> <<>>, failed |-> FALSE]

Free(r) == pc[r] \in {"idle", "done"}

\* checked once slot r has taken another request.
Leaves(r) == [s \in States |-> checked[s] \ {r}]

\* Slot r takes request q and ends it at once with response rs.
EndNow(r, q, rs, lg) ==
  /\ req' = [req EXCEPT ![r] = q]
  /\ pc' = [pc EXCEPT ![r] = "done"]
  /\ loc' = [loc EXCEPT ![r] = NoLoc]
  /\ resp' = [resp EXCEPT ![r] = rs]
  /\ log' = [log EXCEPT ![r] = lg]
  /\ writer' = (IF writer = r THEN 0 ELSE writer)

\* Slot r takes request q and goes on at label l.
GoOn(r, q, l, lc, lg) ==
  /\ req' = [req EXCEPT ![r] = q]
  /\ pc' = [pc EXCEPT ![r] = l]
  /\ loc' = [loc EXCEPT ![r] = lc]
  /\ resp' = [resp EXCEPT ![r] = NoResp]
  /\ log' = [log EXCEPT ![r] = lg]
  /\ writer' = (IF writer = r THEN 0 ELSE writer)

\* The request in slot r ends with response rs after operation op.
End(r, rs, op) ==
  /\ pc' = [pc EXCEPT ![r] = "done"]
  /\ resp' = [resp EXCEPT ![r] = rs]
  /\ log' = [log EXCEPT ![r].ops = Append(@, op)]
  /\ UNCHANGED <<req, loc>>

\* The same for a step that has set a local variable.
Ended(r, rs, op) ==
  /\ pc' = [pc EXCEPT ![r] = "done"]
  /\ resp' = [resp EXCEPT ![r] = rs]
  /\ log' = [log EXCEPT ![r].ops = Append(@, op)]
  /\ UNCHANGED req

---------------------------------------------------------------------------
\* fetch() answers by itself: preflight, gate rejection, 404.

Answer(r, q) ==
  /\ Free(r)
  /\ fetch(q, env) # NoResp
  /\ EndNow(r, q, fetch(q, env), [NoLog EXCEPT !.gate = GateCalled(q)])
  /\ UNCHANGED issued
  /\ checked' = Leaves(r)
  /\ UNCHANGED <<env, kv, usedCodes, fate>>

\* handleRoot: reads the token record, then redirects or renders the dashboard.
rootResponse(e, store) ==
  IF ~Truthy(e.API_KEY) \/ ~hasSpotifyCredentials(e)
    THEN Redirect("/credentials")
    ELSE Response(200,
           IF getStoredTokens(store) # NoData THEN "dashboard:complete"
           ELSE "dashboard:credentials_only")

HandleRoot(r, q) ==
  /\ Free(r)
  /\ Handler(q, env) = "/"
  /\ EndNow(r, q, rootResponse(env, kv),
            [Handled(q) EXCEPT !.ops = << <<"get", TokenKey>> >>])
  /\ UNCHANGED issued
  /\ checked' = Leaves(r)
  /\ UNCHANGED <<env, kv, usedCodes, fate>>

\* handleCredentials: the static instructions page.
HandleCredentials(r, q) ==
  /\ Free(r)
  /\ Handler(q, env) = "/credentials"
  /\ EndNow(r, q, Response(200, "credentials page"), Handled(q))
  /\ UNCHANGED issued
  /\ checked' = Leaves(r)
  /\ UNCHANGED <<env, kv, usedCodes, fate>>

\* handleSetup showing the setup page whatever is configured.
setupPage_alwaysPage(q, e) == Response(200, "setup page")

\* handleSetup without credentials, or on a GET: no store operation.
setupPage(q, e) ==
  IF ~hasSpotifyCredentials(e) THEN Redirect("/credentials")
  ELSE Response(200, "setup page")

HandleSetupPage(r, q) ==
  /\ Free(r)
  /\ Handler(q, env) = "/setup"
  /\ ~hasSpotifyCredentials(env) \/ q.method # "POST"
  /\ EndNow(r, q, setupPage(q, env), Handled(q))
  /\ UNCHANGED issued
  /\ checked' = Leaves(r)
  /\ UNCHANGED <<env, kv, usedCodes, fate>>

\* Initiate redirecting without storing the state value.
HandleSetupPost_noPut(r, q) ==
  /\ Free(r)
  /\ Handler(q, env) = "/setup"
  /\ hasSpotifyCredentials(env) /\ q.method = "POST"
  /\ \E state \in States :
       /\ LET params == authParams(env, setupRedirectUri(q), state) IN
            /\ issued' = [issued EXCEPT ![state] = [origin |-> q.origin, params |-> params]]
            /\ EndNow(r, q, RedirectQuery("https://accounts.spotify.com/authorize", params),
                 [Handled(q) EXCEPT !.ops = << <<"put", StateKey(state)>> >>])
  /\ checked' = Leaves(r)
  /\ UNCHANGED <<env, kv, usedCodes, fate>>

\* handleSetup on a POST with credentials: Initiate.
HandleSetupPost(r, q) ==
  /\ Free(r)
  /\ Handler(q, env) = "/setup"
  /\ hasSpotifyCredentials(env) /\ q.method = "POST"
  /\ \E state \in States :
       /\ kv' = KVput(kv, StateKey(state), "pending", StateTtl)
       /\ fate' = [fate EXCEPT ![state] = "pending"]
       /\ checked' = [Leaves(r) EXCEPT ![state] = {}]
       /\ LET params == authParams(env, setupRedirectUri(q), state) IN
            /\ issued' = [issued EXCEPT ![state] = [origin |-> q.origin, params |-> params]]
            /\ EndNow(r, q, RedirectQuery("https://accounts.spotify.com/authorize", params),
                 [Handled(q) EXCEPT !.ops = << <<"put", StateKey(state)>> >>])
  /\ UNCHANGED <<env, usedCodes>>

\* The parameter tests with the test of code and state made first.
callbackCheck_missingFirst(q) ==
  IF ~Truthy(q.code) \/ ~Truthy(q.state)
    THEN Response(400, "Missing authorization code or state")
  ELSE IF Truthy(q.error) THEN Response(400, "OAuth Error: " \o q.error)
  ELSE NoResp

\* The parameter tests with the test of error made last.
callbackCheck_errorLast(q) ==
  IF ~Truthy(q.code) \/ ~Truthy(q.state)
    THEN Response(400, "Missing authorization code or state")
  ELSE NoResp

\* handleCallback up to the state lookup.
callbackCheck(q) ==
  IF Truthy(q.error) THEN Response(400, "OAuth Error: " \o q.error)
  ELSE IF ~Truthy(q.code) \/ ~Truthy(q.state)
    THEN Response(400, "Missing authorization code or state")
  ELSE NoResp

\* handleCallback going on to the exchange whatever the lookup returned.
HandleCallback_noStateTest(r, q) ==
  /\ Free(r)
  /\ Handler(q, env) = "/callback"
  /\ IF callbackCheck(q) # NoResp
       THEN EndNow(r, q, callbackCheck(q), Handled(q))
     ELSE GoOn(r, q, "cb_exchange",
               [NoLoc EXCEPT !.storedState = KVget(kv, StateKey(q.state))],
               [Handled(q) EXCEPT !.ops = << <<"get", StateKey(q.state)>> >>])
  /\ UNCHANGED issued
  /\ checked' = (IF callbackCheck(q) # NoResp THEN Leaves(r)
                 ELSE [Leaves(r) EXCEPT ![q.state] = @ \cup {r}])
  /\ UNCHANGED <<env, kv, usedCodes, fate>>

HandleCallback(r, q) ==
  /\ Free(r)
  /\ Handler(q, env) = "/callback"
  /\ IF callbackCheck(q) # NoResp
       THEN EndNow(r, q, callbackCheck(q), Handled(q))
     ELSE IF ~Truthy(KVget(kv, StateKey(q.state)))
       THEN EndNow(r, q, Response(400, "Invalid or expired state parameter"),
                   [Handled(q) EXCEPT !.ops = << <<"get", StateKey(q.state)>> >>])
     ELSE GoOn(r, q, "cb_exchange",
               [NoLoc EXCEPT !.storedState = KVget(kv, StateKey(q.state))],
               [Handled(q) EXCEPT !.ops = << <<"get", StateKey(q.state)>> >>])
  /\ UNCHANGED issued
  /\ checked' = (IF callbackCheck(q) = NoResp /\ Truthy(KVget(kv, StateKey(q.state)))
                   THEN [Leaves(r) EXCEPT ![q.state] = @ \cup {r}]
                 ELSE Leaves(r))
  /\ UNCHANGED <<env, kv, usedCodes, fate>>

\* The exchange step deleting the state entry when the exchange fails.
CallbackExchange_cleansUp(r) ==
  /\ pc[r] = "cb_exchange"
  /\ \E ok \in BOOLEAN :
       IF ok /\ hasSpotifyCredentials(env)
         THEN /\ req[r].code \notin usedCodes
              /\ usedCodes' = usedCodes \cup {req[r].code}
              /\ pc' = [pc EXCEPT ![r] = "cb_put"]
              /\ loc' = [loc EXCEPT ![r].data = TokenFor(req[r].code)]
              /\ log' = [log EXCEPT ![r].ops = Append(@, <<"exchange", req[r].code>>)]
              /\ UNCHANGED <<req, resp, kv, fate>>
         ELSE /\ End(r, Response(400, "Token exchange failed: Token exchange failed: Bad Request"),
                     <<"exchange", req[r].code>>)
              /\ kv' = KVdelete(kv, StateKey(req[r].state))
              /\ fate' = [fate EXCEPT ![req[r].state] = "consumed"]
              /\ UNCHANGED usedCodes
  /\ UNCHANGED <<env, writer, checked, issued>>

\* The exchange step against an upstream that redeems a code again.
CallbackExchange_reusableCodes(r) ==
  /\ pc[r] = "cb_exchange"
  /\ IF ~hasSpotifyCredentials(env)
       THEN /\ End(r, Response(400, "Token exchange failed: No Spotify credentials configured. Please complete setup first."),
                   <<"exchange", "none">>)
            /\ UNCHANGED usedCodes
     ELSE \E ok \in BOOLEAN :
       IF ok
         THEN /\ usedCodes' = usedCodes \cup {req[r].code}
              /\ pc' = [pc EXCEPT ![r] = "cb_put"]
              /\ loc' = [loc EXCEPT ![r].data = TokenFor(req[r].code)]
              /\ log' = [log EXCEPT ![r].ops = Append(@, <<"exchange", req[r].code>>)]
              /\ UNCHANGED <<req, resp>>
         ELSE /\ End(r, Response(400, "Token exchange failed: Token exchange failed: Bad Request"),
                     <<"exchange", req[r].code>>)
              /\ UNCHANGED usedCodes
  /\ UNCHANGED <<env, kv, fate, writer, checked, issued>>

\* The exchange step deleting the state entry before the record is put.
CallbackExchange_deletesFirst(r) ==
  /\ pc[r] = "cb_exchange"
  /\ \E ok \in BOOLEAN :
       IF ok /\ hasSpotifyCredentials(env)
         THEN /\ req[r].code \notin usedCodes
              /\ usedCodes' = usedCodes \cup {req[r].code}
              /\ pc' = [pc EXCEPT ![r] = "cb_put"]
              /\ loc' = [loc EXCEPT ![r].data = TokenFor(req[r].code)]
              /\ log' = [log EXCEPT ![r].ops =
                           @ \o << <<"exchange", req[r].code>>,
                                   <<"delete", StateKey(req[r].state)>> >>]
              /\ kv' = KVdelete(kv, StateKey(req[r].state))
              /\ fate' = (IF kv[StateKey(req[r].state)] # Absent
                            THEN [fate EXCEPT ![req[r].state] = "consumed"] ELSE fate)
              /\ UNCHANGED <<req, resp>>
         ELSE /\ End(r, Response(400, "Token exchange failed: Token exchange failed: Bad Request"),
                     <<"exchange", req[r].code>>)
              /\ UNCHANGED <<usedCodes, kv, fate>>
  /\ UNCHANGED <<env, writer, checked, issued>>

\* exchangeCodeForTokens and the test of its result.  The upstream redeems a
\* code at most once; it may reject any code.
CallbackExchange(r) ==
  /\ pc[r] = "cb_exchange"
  /\ IF ~hasSpotifyCredentials(env)
       THEN /\ Ended(r, Response(400, "Token exchange failed: No Spotify credentials configured. Please complete setup first."),
                     <<"exchange", "none">>)
            /\ UNCHANGED usedCodes
     ELSE \E ok \in BOOLEAN :
       IF ok
         THEN /\ req[r].code \notin usedCodes
              /\ usedCodes' = usedCodes \cup {req[r].code}
              /\ pc' = [pc EXCEPT ![r] = "cb_put"]
              /\ log' = [log EXCEPT ![r].ops = Append(@, <<"exchange", req[r].code>>)]
              /\ UNCHANGED <<req, resp>>
         ELSE /\ Ended(r, Response(400, "Token exchange failed: Token exchange failed: Bad Request"),
                       <<"exchange", req[r].code>>)
              /\ UNCHANGED usedCodes
  /\ loc' = [loc EXCEPT ![r].redirectUri = exchangeRedirectUri(req[r]),
                        ![r].data = IF pc'[r] = "cb_put" THEN TokenFor(req[r].code) ELSE @]
  /\ UNCHANGED <<env, kv, fate, writer, checked, issued>>

\* The put keeping a record that is already stored.
CallbackPut_keepsFirst(r) ==
  /\ pc[r] = "cb_put"
  /\ kv' = (IF kv[TokenKey] = Absent
              THEN KVput(kv, TokenKey, JSONstringify(loc[r].data), TokenTtl)
            ELSE kv)
  /\ pc' = [pc EXCEPT ![r] = "cb_delete"]
  /\ log' = [log EXCEPT ![r].ops = Append(@, <<"put", TokenKey>>)]
  /\ writer' = r
  /\ UNCHANGED <<env, usedCodes, req, loc, resp, fate, checked, issued>>

\* The put made only when the state entry is still there.
CallbackPut_rechecksState(r) ==
  /\ pc[r] = "cb_put"
  /\ IF kv[StateKey(req[r].state)] # Absent
       THEN /\ kv' = KVput(kv, TokenKey, JSONstringify(loc[r].data), TokenTtl)
            /\ pc' = [pc EXCEPT ![r] = "cb_delete"]
            /\ log' = [log EXCEPT ![r].ops = Append(@, <<"put", TokenKey>>)]
            /\ writer' = r
            /\ UNCHANGED <<req, loc, resp>>
       ELSE /\ End(r, Response(400, "Invalid or expired state parameter"),
                   <<"get", StateKey(req[r].state)>>)
            /\ UNCHANGED <<kv, writer>>
  /\ UNCHANGED <<env, usedCodes, fate, checked, issued>>

\* The put of the token record.
CallbackPut(r) ==
  /\ pc[r] = "cb_put"
  /\ kv' = KVput(kv, TokenKey, JSONstringify(loc[r].data), TokenTtl)
  /\ pc' = [pc EXCEPT ![r] = "cb_delete"]
  /\ log' = [log EXCEPT ![r].ops = Append(@, <<"put", TokenKey>>)]
  /\ writer' = r
  /\ UNCHANGED <<env, usedCodes, req, loc, resp, fate, checked, issued>>

\* The last step without the delete.
CallbackDelete_noDelete(r) ==
  /\ pc[r] = "cb_delete"
  /\ End(r, Response(200, "OAuth Setup Complete!"), <<"delete", StateKey(req[r].state)>>)
  /\ UNCHANGED <<env, kv, usedCodes, fate, writer, checked, issued>>

\* The last step deleting every state entry.
CallbackDelete_deletesAll(r) ==
  /\ pc[r] = "cb_delete"
  /\ kv' = [k \in Keys |-> IF k = TokenKey THEN kv[k] ELSE Absent]
  /\ fate' = [s \in States |-> IF kv[StateKey(s)] # Absent THEN "consumed" ELSE fate[s]]
  /\ End(r, Response(200, "OAuth Setup Complete!"), <<"delete", StateKey(req[r].state)>>)
  /\ UNCHANGED <<env, usedCodes, writer, checked, issued>>

\* The last step writing the state entry back.
CallbackDelete_restoresState(r) ==
  /\ pc[r] = "cb_delete"
  /\ kv' = KVput(kv, StateKey(req[r].state), "pending", StateTtl)
  /\ fate' = [fate EXCEPT ![req[r].state] = "pending"]
  /\ End(r, Response(200, "OAuth Setup Complete!"), <<"delete", StateKey(req[r].state)>>)
  /\ UNCHANGED <<env, usedCodes, writer, checked, issued>>

\* The delete of the state entry, and the success page.
CallbackDelete(r) ==
  /\ pc[r] = "cb_delete"
  /\ kv' = KVdelete(kv, StateKey(req[r].state))
  /\ fate' = (IF kv[StateKey(req[r].state)] # Absent
                THEN [fate EXCEPT ![req[r].state] = "consumed"] ELSE fate)
  /\ End(r, Response(200, "OAuth Setup Complete!"), <<"delete", StateKey(req[r].state)>>)
  /\ UNCHANGED <<env, usedCodes, writer, checked, issued>>

---------------------------------------------------------------------------
\* The data endpoints and the health check.

NoTokens ==
  Json(401, {<<"error", "No valid tokens found. Please complete OAuth setup first.">>})

\* What the upstream data API may answer.
UpstreamStatuses == {200, 204, 401, 500}

\* handleNowPlaying without the test of 204.
nowPlayingResponse_no204(st) ==
  IF ~(st >= 200 /\ st <= 299)
    THEN Json(st, {<<"error", "Failed to fetch current track">>})
  ELSE Json(200, {<<"upstream", "currently-playing">>})

\* handleNowPlaying after callSpotifyAPI answered with status st.
nowPlayingResponse(st) ==
  IF st = 204
    THEN Json(200, {<<"playing", "false">>, <<"message", "No track currently playing">>})
  ELSE IF ~(st >= 200 /\ st <= 299)
    THEN Json(st, {<<"error", "Failed to fetch current track">>})
  ELSE Json(200, {<<"upstream", "currently-playing">>})

\* handleRecent answering every upstream failure with 502.
recentResponse_badGateway(st) ==
  IF ~(st >= 200 /\ st <= 299)
    THEN Json(502, {<<"error", "Failed to fetch recent tracks">>})
  ELSE Json(200, {<<"upstream", "recently-played">>})

\* handleRecent after callSpotifyAPI answered with status st.
recentResponse(st) ==
  IF ~(st >= 200 /\ st <= 299)
    THEN Json(st, {<<"error", "Failed to fetch recent tracks">>})
  ELSE Json(200, {<<"upstream", "recently-played">>})

\* The data handlers calling the upstream whatever the read returned.
HandleData_noTokenTest(r, q) ==
  /\ Free(r)
  /\ Handler(q, env) \in {"/now-playing", "/recent"}
  /\ GoOn(r, q, "api_call", [NoLoc EXCEPT !.tokens = getStoredTokens(kv)],
          [Handled(q) EXCEPT !.ops = << <<"get", TokenKey>> >>])
  /\ UNCHANGED issued
  /\ checked' = Leaves(r)
  /\ UNCHANGED <<env, kv, usedCodes, fate>>

\* handleNowPlaying / handleRecent up to the read of the token record.
HandleData(r, q) ==
  /\ Free(r)
  /\ Handler(q, env) \in {"/now-playing", "/recent"}
  /\ IF getStoredTokens(kv) = NoData
       THEN EndNow(r, q, NoTokens,
                   [Handled(q) EXCEPT !.ops = << <<"get", TokenKey>> >>])
       ELSE GoOn(r, q, "api_call", [NoLoc EXCEPT !.tokens = getStoredTokens(kv)],
                 [Handled(q) EXCEPT !.ops = << <<"get", TokenKey>> >>])
  /\ UNCHANGED issued
  /\ checked' = Leaves(r)
  /\ UNCHANGED <<env, kv, usedCodes, fate>>

\* The call made again after a failure, and the record dropped after one.
DataCall_retries(r) ==
  /\ pc[r] = "api_call"
  /\ \E st \in UpstreamStatuses :
       /\ pc' = [pc EXCEPT ![r] = IF st >= 400 /\ Len(log[r].ops) < 2
                                    THEN "api_call" ELSE "done"]
       /\ loc' = [loc EXCEPT ![r].status = st]
       /\ resp' = [resp EXCEPT ![r] = IF st >= 400 /\ Len(log[r].ops) < 2 THEN NoResp
                                      ELSE IF req[r].path = "/now-playing"
                                        THEN nowPlayingResponse(st)
                                      ELSE recentResponse(st)]
       /\ log' = [log EXCEPT ![r].ops = Append(@, <<"api", loc[r].tokens.access_token>>)]
  /\ UNCHANGED <<env, kv, usedCodes, req, fate, writer, checked, issued>>

DataCall_dropsTokens(r) ==
  /\ pc[r] = "api_call"
  /\ \E st \in UpstreamStatuses :
       /\ pc' = [pc EXCEPT ![r] = "done"]
       /\ loc' = [loc EXCEPT ![r].status = st]
       /\ resp' = [resp EXCEPT ![r] = IF req[r].path = "/now-playing"
                                        THEN nowPlayingResponse(st)
                                      ELSE recentResponse(st)]
       /\ log' = [log EXCEPT ![r].ops = Append(@, <<"api", loc[r].tokens.access_token>>)]
       /\ kv' = (IF st = 401 THEN KVdelete(kv, TokenKey) ELSE kv)
       /\ writer' = (IF st = 401 THEN 0 ELSE writer)
  /\ UNCHANGED <<env, usedCodes, req, fate, checked, issued>>

\* callSpotifyAPI and the relay of its answer.
DataCall(r) ==
  /\ pc[r] = "api_call"
  /\ \E st \in UpstreamStatuses :
       /\ pc' = [pc EXCEPT ![r] = "done"]
       /\ loc' = [loc EXCEPT ![r].status = st]
       /\ resp' = [resp EXCEPT ![r] = IF req[r].path = "/now-playing"
                                        THEN nowPlayingResponse(st)
                                      ELSE recentResponse(st)]
       /\ log' = [log EXCEPT ![r].ops = Append(@, <<"api", loc[r].tokens.access_token>>)]
  /\ UNCHANGED <<env, kv, usedCodes, req, fate, writer, checked, issued>>

Bool(b) == IF b THEN "true" ELSE "false"

\* The payload with the key itself, and with setup_complete following the
\* token record alone.
healthPayload_leaksKey(e, store) ==
  {<<"status", "healthy">>, <<"api_key_configured", e.API_KEY>>,
   <<"credentials_configured", Bool(hasSpotifyCredentials(e))>>,
   <<"oauth_configured", Bool(getStoredTokens(store) # NoData)>>,
   <<"setup_complete",
     Bool(Truthy(e.API_KEY) /\ hasSpotifyCredentials(e) /\ getStoredTokens(store) # NoData)>>}

healthPayload_tokensOnly(e, store) ==
  {<<"status", "healthy">>, <<"api_key_configured", Bool(Truthy(e.API_KEY))>>,
   <<"credentials_configured", Bool(hasSpotifyCredentials(e))>>,
   <<"oauth_configured", Bool(getStoredTokens(store) # NoData)>>,
   <<"setup_complete", Bool(getStoredTokens(store) # NoData)>>}

\* handleHealth's payload (the timestamp left out).
healthPayload(e, store) ==
  LET hasValidCredentials == hasSpotifyCredentials(e)
      hasValidTokens == getStoredTokens(store) # NoData
      hasApiKey == Truthy(e.API_KEY)
  IN {<<"status", "healthy">>,
      <<"api_key_configured", Bool(hasApiKey)>>,
      <<"credentials_configured", Bool(hasValidCredentials)>>,
      <<"oauth_configured", Bool(hasValidTokens)>>,
      <<"setup_complete", Bool(hasApiKey /\ hasValidCredentials /\ hasValidTokens)>>,
      <<"next_step",
        IF ~hasApiKey
          THEN "Configure secrets (API key + Spotify credentials) at /credentials"
        ELSE IF ~hasValidCredentials THEN "Configure Spotify credentials at /credentials"
        ELSE IF ~hasValidTokens THEN "Complete OAuth setup at /setup"
        ELSE "Ready to use API endpoints">>}

HandleHealth(r, q) ==
  /\ Free(r)
  /\ Handler(q, env) = "/health"
  /\ EndNow(r, q, Json(200, healthPayload(env, kv)),
            [Handled(q) EXCEPT !.ops = << <<"get", TokenKey>> >>])
  /\ UNCHANGED issued
  /\ checked' = Leaves(r)
  /\ UNCHANGED <<env, kv, usedCodes, fate>>

---------------------------------------------------------------------------
\* The store's expiry.  A state entry (600 s) may expire at any time.  The
\* token record (3600 s) outlives the request that wrote it: it does not
\* expire between that request's put and its response.

ExpireState(s) ==
  /\ kv[StateKey(s)] # Absent
  /\ kv' = [kv EXCEPT ![StateKey(s)] = Absent]
  /\ fate' = [fate EXCEPT ![s] = "expired"]
  /\ UNCHANGED <<env, usedCodes, req, pc, loc, resp, log, writer, checked, issued>>

ExpireTokens ==
  /\ kv[TokenKey] # Absent
  /\ \A r \in Slots : pc[r] # "cb_delete"
  /\ kv' = [kv EXCEPT ![TokenKey] = Absent]
  /\ writer' = 0
  /\ UNCHANGED <<env, usedCodes, req, pc, loc, resp, log, fate, checked, issued>>

---------------------------------------------------------------------------
\* A failure inside a handler: a store operation or an upstream call rejects.
\* fetch() returns the handler's promise without awaiting it, so its
\* try/catch has been left when the promise rejects.

Awaiting == {"cb_exchange", "cb_put", "cb_delete", "api_call"}

\* The first awaited operation of a handler fails.
FailFirst(r, q) ==
  /\ Free(r)
  /\ \/ Handler(q, env) \in {"/", "/now-playing", "/recent", "/health"}
     \/ Handler(q, env) = "/setup" /\ hasSpotifyCredentials(env) /\ q.method = "POST"
     \/ Handler(q, env) = "/callback" /\ callbackCheck(q) = NoResp
  /\ EndNow(r, q, Uncaught, [Handled(q) EXCEPT !.failed = TRUE])
  /\ UNCHANGED issued
  /\ checked' = Leaves(r)
  /\ UNCHANGED <<env, kv, usedCodes, fate>>

\* A later awaited operation fails.
FailLater(r) ==
  /\ pc[r] \in Awaiting
  /\ pc' = [pc EXCEPT ![r] = "done"]
  /\ resp' = [resp EXCEPT ![r] = Uncaught]
  /\ log' = [log EXCEPT ![r].failed = TRUE]
  /\ UNCHANGED <<env, kv, usedCodes, req, loc, fate, writer, checked, issued>>

---------------------------------------------------------------------------
\* Specifications.

Init ==
  /\ env \in Envs
  /\ kv = [k \in Keys |-> Absent]
  /\ usedCodes = {}
  /\ req = [r \in Slots |-> NoReq]
  /\ pc = [r \in Slots |-> "idle"]
  /\ loc = [r \in Slots |-> NoLoc]
  /\ resp = [r \in Slots |-> NoResp]
  /\ log = [r \in Slots |-> NoLog]
  /\ fate = [s \in States |-> "never"]
  /\ writer = 0
  /\ checked = [s \in States |-> {}]
  /\ issued = [s \in States |-> NoIssue]

\* The paths of the OAuth flow are public: no step of it reads API_KEY, and
\* one value stands for all.
InitOAuth == Init /\ env.API_KEY = "k1"

\* Concurrent requests of the OAuth flow.
Next ==
  \/ \E r \in Slots : \E q \in OAuthRequests : HandleSetupPost(r, q)
  \/ \E r \in Slots : \E q \in OAuthRequests : HandleCallback(r, q)
  \/ \E r \in Slots : CallbackExchange(r)
  \/ \E r \in Slots : CallbackPut(r)
  \/ \E r \in Slots : CallbackDelete(r)
  \/ \E s \in States : ExpireState(s)
  \/ ExpireTokens

Spec == InitOAuth /\ [][Next]_vars

\* The same under the store's expiry: an entry with an expirationTtl does
\* not stay for ever.
SpecLive ==
  /\ InitOAuth /\ [][Next]_vars
  /\ \A s \in States : WF_vars(ExpireState(s))

\* One request of the OAuth flow at a time, on any origin.
NextOrigin ==
  \/ \E q \in OriginRequests : HandleSetupPost(1, q) \/ HandleCallback(1, q)
  \/ CallbackExchange(1)
  \/ CallbackPut(1)
  \/ CallbackDelete(1)
  \/ \E s \in States : ExpireState(s)
  \/ ExpireTokens

SpecOrigin == InitOAuth /\ [][NextOrigin]_vars

\* One initiation or callback at a time, with any query.
NextQuery ==
  \/ \E q \in QueryRequests :
       \/ HandleSetupPage(1, q)
       \/ HandleSetupPost(1, q)
       \/ HandleCallback(1, q)
  \/ CallbackExchange(1)
  \/ CallbackPut(1)
  \/ CallbackDelete(1)
  \/ \E s \in States : ExpireState(s)
  \/ ExpireTokens

SpecQuery == InitOAuth /\ [][NextQuery]_vars

\* One request at a time, of any method, path and Authorization header.
NextGate ==
  \E q \in GateRequests :
    \/ Answer(1, q)
    \/ HandleRoot(1, q)
    \/ HandleCredentials(1, q)
    \/ HandleSetupPage(1, q)
    \/ HandleSetupPost(1, q)
    \/ HandleCallback(1, q)
    \/ HandleData(1, q)
    \/ HandleHealth(1, q)

SpecGate == Init /\ [][NextGate]_vars

\* One request at a time, of a client that holds the key.
NextSeq ==
  \/ \E q \in FlowRequests :
       \/ Answer(1, q)
       \/ HandleRoot(1, q)
       \/ HandleCredentials(1, q)
       \/ HandleSetupPage(1, q)
       \/ HandleSetupPost(1, q)
       \/ HandleCallback(1, q)
       \/ HandleData(1, q)
       \/ HandleHealth(1, q)
  \/ CallbackExchange(1)
  \/ CallbackPut(1)
  \/ CallbackDelete(1)
  \/ DataCall(1)
  \/ \E s \in States : ExpireState(s)
  \/ ExpireTokens

SpecSeq == Init /\ [][NextSeq]_vars

\* The same, with failing store operations and upstream calls.
NextFault ==
  \/ NextSeq
  \/ \E q \in FlowRequests : FailFirst(1, q)
  \/ FailLater(1)

SpecFault == Init /\ [][NextFault]_vars

---------------------------------------------------------------------------
\* What fetch() answers to request q under secrets e and store contents
\* store, where the first step of the handling decides it; NoResp where a
\* random draw or a later step does.
Outcome(q, e, store) ==
  IF fetch(q, e) # NoResp THEN fetch(q, e)
  ELSE IF q.path = "/" THEN rootResponse(e, store)
  ELSE IF q.path = "/credentials" THEN Response(200, "credentials page")
  ELSE IF q.path = "/setup"
    THEN (IF ~hasSpotifyCredentials(e) \/ q.method # "POST" THEN setupPage(q, e)
          ELSE NoResp)
  ELSE IF q.path = "/callback"
    THEN (IF callbackCheck(q) # NoResp THEN callbackCheck(q)
          ELSE IF ~Truthy(KVget(store, StateKey(q.state)))
            THEN Response(400, "Invalid or expired state parameter")
          ELSE NoResp)
  ELSE IF q.path = "/health" THEN Json(200, healthPayload(e, store))
  ELSE IF getStoredTokens(store) = NoData THEN NoTokens
  ELSE NoResp

---------------------------------------------------------------------------
\* Properties.

Done(r) == pc[r] = "done"

\* Slot r takes a request in this step.
Arrives(r) ==
  /\ Free(r)
  /\ <<req[r], pc[r], loc[r], resp[r], log[r]>>' # <<req[r], pc[r], loc[r], resp[r], log[r]>>

\* The allow-list of the specification.
AllowList == {"/health", "/credentials", "/setup", "/callback"}

GateResponses == {GateMissing, GateFormat, GateNotConfigured, GateInvalid}

\* The header is 'Bearer ' followed by the configured key.
ValidBearer(h, e) == Truthy(h) /\ startsWithBearer(h) /\ slice7(h) = e.API_KEY

\* A request the claims on protected paths speak of: not a preflight, not on
\* the allow-list, without the valid key.
Unkeyed(r) ==
  /\ Done(r)
  /\ req[r].method # "OPTIONS"
  /\ ~ValidBearer(req[r].auth, env)

\* C1 as stated: every request to a protected path without the valid key is
\* answered 401 and its handler is not run, whatever API_KEY is.
C1_Original ==
  \A r \in Slots :
    Unkeyed(r) /\ req[r].path \notin AllowList =>
      resp[r].status = 401 /\ log[r].handler = NULL

\* C1 amended: such a request is answered by the gate and its handler is not
\* run; the status is 401 when API_KEY is configured, and 401 or 500 (never
\* anything else) when it is empty or absent.
C1_GateRejects ==
  \A r \in Slots :
    Unkeyed(r) /\ req[r].path \notin AllowList =>
      /\ log[r].handler = NULL
      /\ resp[r] \in GateResponses
      /\ Truthy(env.API_KEY) => resp[r].status = 401
      /\ ~Truthy(env.API_KEY) => resp[r].status \in {401, 500}

C1_Witness ==
  \E r \in Slots :
    /\ Unkeyed(r)
    /\ req[r].path = "/now-playing" /\ req[r].auth = "Bearer k12"
    /\ env.API_KEY = "k1"
    /\ resp[r] = GateInvalid /\ log[r].handler = NULL

\* C2 as stated: on an allow-list path the gate is not called, and the
\* response is what it would be under any other Authorization header and
\* any other API_KEY.
C2_Original ==
  [][\A r \in Slots :
       Arrives(r) /\ req'[r].path \in AllowList =>
         /\ ~log'[r].gate
         /\ \A h \in AuthHeaders, k \in ApiKeys :
              Outcome(req'[r], env, kv) # NoResp =>
                resp'[r] = Outcome([req'[r] EXCEPT !.auth = h],
                                   [env EXCEPT !.API_KEY = k], kv)]_vars

\* C2 amended: on an allow-list path the gate is not called and the response
\* is what it would be under any other Authorization header; it is also the
\* same under any other API_KEY, except that the /health payload reports
\* whether a key is configured.
C2_NoGateOnPublic ==
  [][\A r \in Slots :
       Arrives(r) /\ req'[r].path \in AllowList =>
         /\ ~log'[r].gate
         /\ \A h \in AuthHeaders, k \in ApiKeys :
              /\ Outcome(req'[r], env, kv) # NoResp
              /\ req'[r].path = "/health" => Truthy(k) = Truthy(env.API_KEY)
              => resp'[r] = Outcome([req'[r] EXCEPT !.auth = h],
                                    [env EXCEPT !.API_KEY = k], kv)]_vars

C2_Witness ==
  \E r \in Slots :
    /\ Done(r)
    /\ req[r].path = "/health" /\ req[r].method = "GET"
    /\ req[r].auth = "Basic k1" /\ ~Truthy(env.API_KEY)
    /\ ~log[r].gate /\ log[r].handler = "/health" /\ resp[r].status = 200

\* C8 as stated: with API_KEY empty or absent, every request to a protected
\* path is answered 500 'not configured', whatever its Authorization header.
C8_Claim ==
  \A r \in Slots :
    /\ Done(r) /\ req[r].method # "OPTIONS"
    /\ req[r].path \notin AllowList
    /\ ~Truthy(env.API_KEY)
    => resp[r] = GateNotConfigured

\* C9: the gate lets a request proceed exactly when API_KEY is configured and
\* the header is 'Bearer ' followed by it; otherwise it answers 401 or 500
\* and the handler is not run.
C9_GateIff ==
  \A r \in Slots :
    Done(r) /\ log[r].gate =>
      LET ok == Truthy(env.API_KEY) /\ req[r].auth = "Bearer " \o env.API_KEY
          proceeded == resp[r] \notin GateResponses
      IN /\ proceeded <=> ok
         /\ proceeded =>
              \/ log[r].handler = req[r].path
              \/ resp[r] = Response(404, "Not Found")
         /\ ~proceeded => resp[r].status \in {401, 500} /\ log[r].handler = NULL

C9_Witness ==
  \E r \in Slots :
    /\ Done(r) /\ log[r].gate
    /\ req[r].auth = "Bearer k1" /\ env.API_KEY = "k1"
    /\ req[r].path = "/recent" /\ log[r].handler = "/recent"

---------------------------------------------------------------------------
\* The OAuth flow.

\* The request logged in lg performed operation op.
HasOp(lg, op) == \E i \in 1..Len(lg.ops) : lg.ops[i][1] = op

OpsOf(lg) == {lg.ops[i][1] : i \in 1..Len(lg.ops)}

Succeeded(r) ==
  /\ Done(r) /\ req[r].path = "/callback"
  /\ resp[r] = Response(200, "OAuth Setup Complete!")

\* Slot r holds an ended POST /setup that redirected to the upstream.
Initiated(r) ==
  /\ Done(r) /\ req[r].path = "/setup"
  /\ resp[r].location = "https://accounts.spotify.com/authorize"

\* The state parameter of an authorization redirect.
StateOf(rs) == CHOOSE s \in States : <<"state", s>> \in rs.data

\* C3: a callback whose state value is not pending when it arrives (never
\* issued, expired, or consumed by an earlier callback) is answered 400 and
\* makes no token exchange; a callback that exchanges has read its state.
C3_NoExchangeWithoutState ==
  [][\A r \in Slots :
       /\ ( /\ Arrives(r) /\ req'[r].path = "/callback"
            /\ Truthy(req'[r].state) /\ fate[req'[r].state] # "pending" )
          => /\ pc'[r] = "done" /\ resp'[r].status = 400
             /\ ~HasOp(log'[r], "exchange")
       /\ HasOp(log'[r], "exchange") => loc'[r].storedState = "pending"]_vars

C3_Witness ==
  \E r1, r2 \in Slots :
    /\ Succeeded(r1)
    /\ Done(r2) /\ req[r2].path = "/callback" /\ req[r2].state = req[r1].state
    /\ fate[req[r2].state] = "consumed"
    /\ resp[r2] = Response(400, "Invalid or expired state parameter")
    /\ ~HasOp(log[r2], "exchange")

\* C4 as stated: when a callback ends in success the token record is the
\* payload of its own exchange and its state entry is absent.
C4_Original ==
  [][\A r \in Slots :
       pc[r] = "cb_delete" /\ Succeeded(r)' =>
         /\ kv'[TokenKey].value = JSONstringify(loc[r].data)
         /\ kv'[StateKey(req[r].state)] = Absent]_vars

\* C4 amended: when a callback ends in success its state entry is absent and
\* the store holds one token record, under spotify_tokens: the payload of its
\* own exchange or, when another callback's put was applied after its own,
\* the payload of that later put.
C4_TokenStored ==
  [][\A r \in Slots :
       pc[r] = "cb_delete" /\ Succeeded(r)' =>
         /\ kv'[StateKey(req[r].state)] = Absent
         /\ kv'[TokenKey].ttl = TokenTtl
         /\ \A s \in States : kv'[StateKey(s)].value \in {NULL, "pending"}
         /\ IF writer = r THEN kv'[TokenKey].value = JSONstringify(loc[r].data)
            ELSE /\ kv'[TokenKey].value \in {JSONstringify(d) : d \in TokenPayloads}
                 /\ writer \in Slots =>
                      /\ pc[writer] \in {"cb_delete", "done"}
                      /\ kv'[TokenKey].value = JSONstringify(loc[writer].data)]_vars

C4_Witness ==
  \E r \in Slots :
    /\ Succeeded(r) /\ writer = r
    /\ kv[TokenKey].value = JSONstringify(TokenFor(req[r].code))
    /\ kv[StateKey(req[r].state)] = Absent

\* C5: a callback whose exchange fails is answered 400 and has only read
\* the store: the step that fails and the lookup before it leave every
\* entry, the state entry included, as it was.
C5_FailedExchangeKeepsStore ==
  [][\A r \in Slots :
       /\ pc[r] = "cb_exchange" /\ pc'[r] = "done" =>
            /\ resp'[r].status = 400
            /\ kv' = kv
            /\ OpsOf(log'[r]) = {"get", "exchange"}
       /\ Arrives(r) /\ req'[r].path = "/callback" => kv' = kv]_vars

C5_Witness ==
  \E r \in Slots :
    /\ Done(r) /\ req[r].path = "/callback"
    /\ resp[r] = Response(400, "Token exchange failed: Token exchange failed: Bad Request")
    /\ kv[StateKey(req[r].state)].value = "pending"
    /\ kv[TokenKey] = Absent

\* C6 as stated: two initiations produce two distinct state values.
C6_Original ==
  \A r1, r2 \in Slots :
    r1 # r2 /\ Initiated(r1) /\ Initiated(r2) =>
      StateOf(resp[r1]) # StateOf(resp[r2])

\* C6 amended: every initiation stores the state value it generated under
\* its own key and touches no other entry; a state value whose entry is
\* present is valid for a callback; and no step of a callback touches the
\* entry of another state value.  (Two initiations may draw the same value.)
C6_IndependentStates ==
  [][\A r \in Slots :
       /\ Arrives(r) /\ Initiated(r)' =>
            /\ kv'[StateKey(StateOf(resp'[r]))] = [value |-> "pending", ttl |-> StateTtl]
            /\ \A k \in Keys \ {StateKey(StateOf(resp'[r]))} : kv'[k] = kv[k]
       /\ ( /\ Arrives(r) /\ req'[r].path = "/callback"
            /\ callbackCheck(req'[r]) = NoResp
            /\ kv[StateKey(req'[r].state)] # Absent )
          => pc'[r] = "cb_exchange"
       /\ ( /\ req'[r].path = "/callback"
            /\ <<pc[r], log[r]>>' # <<pc[r], log[r]>> )
          => \A s \in States \ {req'[r].state} : kv'[StateKey(s)] = kv[StateKey(s)]]_vars

C6_Witness ==
  \E r1, r2 \in Slots :
    /\ Succeeded(r1) /\ Initiated(r2)
    /\ StateOf(resp[r2]) # req[r1].state
    /\ kv[StateKey(req[r1].state)] = Absent
    /\ kv[StateKey(StateOf(resp[r2]))].value = "pending"

\* C7 as stated: a request in whose handling an operation failed ends with
\* the generic 500 response of the top-level handler.
C7_Claim ==
  \A r \in Slots :
    Done(r) /\ log[r].failed => resp[r] = Response(500, "Internal Server Error")

---------------------------------------------------------------------------
\* The data endpoints.

DataPaths == {"/now-playing", "/recent"}

\* Text b contains text x.
Contains(b, x) ==
  x = "" \/ \E i \in 1..(Len(b) - Len(x) + 1) : SubSeq(b, i, i + Len(x) - 1) = x

\* C11: a request to /now-playing or /recent that has passed the gate while
\* the token record is absent (never stored, or expired) is answered 401
\* 'No valid tokens found' having only read the record: no upstream call, no
\* token exchange or refresh, no write to the store.
C11_NoTokensNoCall ==
  [][\A r \in Slots :
       Arrives(r) /\ log'[r].handler \in DataPaths /\ kv[TokenKey] = Absent =>
         /\ pc'[r] = "done" /\ resp'[r] = NoTokens
         /\ resp'[r].status = 401
         /\ log'[r].ops = << <<"get", TokenKey>> >>
         /\ kv' = kv /\ usedCodes' = usedCodes]_vars

\* A data request answered 401 after a record was stored and has expired.
C11_Witness ==
  \E r \in Slots :
    /\ Done(r) /\ req[r].path = "/recent" /\ log[r].handler = "/recent"
    /\ usedCodes # {} /\ kv[TokenKey] = Absent
    /\ resp[r] = NoTokens

\* C12: when the upstream answers /now-playing's call with 204, the response
\* is 200 with playing = false and no error field.
C12_NoContentIsNotAnError ==
  [][\A r \in Slots :
       /\ pc[r] = "api_call" /\ req[r].path = "/now-playing"
       /\ pc'[r] = "done" /\ loc'[r].status = 204
       => /\ resp'[r].status = 200
          /\ <<"playing", "false">> \in resp'[r].data
          /\ \A p \in resp'[r].data : p[1] # "error"]_vars

C12_Witness ==
  \E r \in Slots :
    /\ Done(r) /\ req[r].path = "/now-playing"
    /\ loc[r].tokens # NoData /\ loc[r].status = 204
    /\ resp[r].status = 200 /\ <<"playing", "false">> \in resp[r].data

---------------------------------------------------------------------------
\* Initiate and the callback's parameters.

\* The keys that have an entry in the store.
Present(store) == {k \in Keys : store[k] # Absent}

\* Slot r takes a POST /setup that handleSetup answers with credentials set.
Initiates(r) ==
  /\ Arrives(r) /\ log'[r].handler = "/setup"
  /\ req'[r].method = "POST" /\ hasSpotifyCredentials(env)

\* The redirect of Initiate, and the entry it leaves for state value s.
InitiateFor(r, s) ==
  /\ resp'[r].status = 302
  /\ resp'[r].location = "https://accounts.spotify.com/authorize"
  /\ <<"response_type", "code">> \in resp'[r].data
  /\ <<"client_id", env.SPOTIFY_CLIENT_ID>> \in resp'[r].data
  /\ {p \in resp'[r].data : p[1] = "state"} = {<<"state", s>>}
  /\ kv'[StateKey(s)] = [value |-> "pending", ttl |-> StateTtl]
  /\ log'[r].ops = << <<"put", StateKey(s)>> >>

\* C13 as stated: the redirect carries response_type=code, the client id and
\* a state s; oauth_state_<s> is stored as 'pending' for 600 s; the store has
\* exactly one entry more than before the request.
C13_Original ==
  [][\A r \in Slots :
       Initiates(r) =>
         \E s \in States :
           /\ InitiateFor(r, s)
           /\ Present(kv') = Present(kv) \cup {StateKey(s)}
           /\ Cardinality(Present(kv')) = Cardinality(Present(kv)) + 1]_vars

\* C13 amended: the same redirect and the same entry; the request writes
\* exactly one entry, oauth_state_<s>, and leaves every other entry as it
\* was.  The entry is new unless s is a value still pending from an earlier
\* initiation, which is then overwritten and its expiry renewed.
C13_InitiateStoresState ==
  [][\A r \in Slots :
       Initiates(r) =>
         \E s \in States :
           /\ InitiateFor(r, s)
           /\ Present(kv') = Present(kv) \cup {StateKey(s)}
           /\ \A k \in Keys \ {StateKey(s)} : kv'[k] = kv[k]
           /\ kv[StateKey(s)] \in {Absent, [value |-> "pending", ttl |-> StateTtl]}]_vars

C13_Witness ==
  \E r \in Slots :
    /\ Initiated(r) /\ log[r].ops = << <<"put", StateKey(StateOf(resp[r]))>> >>
    /\ <<"client_id", "cid">> \in resp[r].data
    /\ kv[StateKey(StateOf(resp[r]))] = [value |-> "pending", ttl |-> StateTtl]
    /\ Cardinality(Present(kv)) = 1

\* Slot r takes a request that handleCallback answers.
CallbackArrives(r) == Arrives(r) /\ log'[r].handler = "/callback"

\* C14 as stated: a callback with an error parameter, whatever its value, is
\* answered 400 with that value in the body; the store is not read or
\* written and no exchange is made.
C14_Original ==
  [][\A r \in Slots :
       CallbackArrives(r) /\ req'[r].error # NULL =>
         /\ pc'[r] = "done" /\ resp'[r].status = 400
         /\ Contains(resp'[r].body, req'[r].error)
         /\ log'[r].ops = <<>>
         /\ kv' = kv /\ usedCodes' = usedCodes]_vars

\* C14 amended: a callback with a non-empty error parameter is answered 400
\* 'OAuth Error: <value>', whatever code and state accompany it; the store
\* is not read or written and no exchange is made.  An empty error parameter
\* is ignored: the callback is handled as one without it.
C14_ErrorParameter ==
  [][\A r \in Slots :
       /\ CallbackArrives(r) /\ Truthy(req'[r].error) =>
            /\ pc'[r] = "done"
            /\ resp'[r] = Response(400, "OAuth Error: " \o req'[r].error)
            /\ Contains(resp'[r].body, req'[r].error)
            /\ log'[r].ops = <<>>
            /\ kv' = kv /\ usedCodes' = usedCodes
       /\ CallbackArrives(r) /\ req'[r].error = "" =>
            LET plain == Outcome([req'[r] EXCEPT !.error = NULL], env, kv)
            IN IF plain # NoResp THEN pc'[r] = "done" /\ resp'[r] = plain
               ELSE pc'[r] = "cb_exchange"]_vars

\* An error callback that carries a code and a state that is pending.
C14_Witness ==
  \E r \in Slots :
    /\ Done(r) /\ req[r].path = "/callback" /\ req[r].error = "access_denied"
    /\ Truthy(req[r].code) /\ Truthy(req[r].state)
    /\ kv[StateKey(req[r].state)].value = "pending"
    /\ resp[r] = Response(400, "OAuth Error: access_denied")

---------------------------------------------------------------------------
\* The health check and the dashboard.

\* The configurations that differ from e only in the values of secrets that
\* are set in e.
SameFlags(e) ==
  { e2 \in [API_KEY : ApiKeys \cup {"k2"},
            SPOTIFY_CLIENT_ID : {NULL, "cid", "cid2"},
            SPOTIFY_CLIENT_SECRET : {NULL, "shh", "shh2"}] :
      /\ Truthy(e.API_KEY) \/ e2.API_KEY = e.API_KEY
      /\ Truthy(e.SPOTIFY_CLIENT_ID) \/ e2.SPOTIFY_CLIENT_ID = e.SPOTIFY_CLIENT_ID
      /\ Truthy(e.SPOTIFY_CLIENT_SECRET) \/ e2.SPOTIFY_CLIENT_SECRET = e.SPOTIFY_CLIENT_SECRET
      /\ Truthy(e2.API_KEY) = Truthy(e.API_KEY)
      /\ Truthy(e2.SPOTIFY_CLIENT_ID) = Truthy(e.SPOTIFY_CLIENT_ID)
      /\ Truthy(e2.SPOTIFY_CLIENT_SECRET) = Truthy(e.SPOTIFY_CLIENT_SECRET) }

\* The stores that differ from store only in the content of the token record.
SameRecords(store) ==
  IF store[TokenKey] = Absent THEN {store}
  ELSE {[store EXCEPT ![TokenKey].value = JSONstringify(d)] : d \in TokenPayloads}

\* The secret texts of a configuration and a store.
SecretsOf(e, store) ==
  {x \in {e.API_KEY, e.SPOTIFY_CLIENT_SECRET, KVget(store, TokenKey),
          getStoredTokens(store).access_token,
          getStoredTokens(store).refresh_token} : Truthy(x)}

\* Slot r takes a request that handleHealth answers.
HealthArrives(r) == Arrives(r) /\ log'[r].handler = "/health"

\* C15: the /health payload is the one any configuration with the same
\* secrets set, whatever their values, and any content of the token record
\* would produce; no field of it contains the API key, the client secret or
\* a token value.
C15_HealthHidesSecrets ==
  [][\A r \in Slots :
       HealthArrives(r) =>
         /\ \A e2 \in SameFlags(env), store2 \in SameRecords(kv) :
              resp'[r] = Json(200, healthPayload(e2, store2))
         /\ \A p \in resp'[r].data, x \in SecretsOf(env, kv) :
              ~Contains(p[2], x)]_vars

\* A health check of a worker with every secret set and a record stored.
C15_Witness ==
  \E r \in Slots :
    /\ Done(r) /\ log[r].handler = "/health"
    /\ Cardinality(SecretsOf(env, kv)) = 5
    /\ <<"setup_complete", "true">> \in resp[r].data

\* C16 as stated: GET / on a worker without API key, or without client id
\* or secret, is answered 302 to /credentials.
C16_Claim ==
  \A r \in Slots :
    /\ Done(r) /\ req[r].method = "GET" /\ req[r].path = "/"
    /\ ~Truthy(env.API_KEY) \/ ~hasSpotifyCredentials(env)
    => resp[r] = Redirect("/credentials")

\* Slot r takes a request that handleRoot answers with the dashboard.
DashboardArrives(r) ==
  Arrives(r) /\ log'[r].handler = "/" /\ resp'[r].status = 200

\* C17 as stated: /health reports setup_complete = true, and the dashboard
\* 'complete', exactly when spotify_tokens is present.
C17_Original ==
  [][\A r \in Slots :
       /\ HealthArrives(r) =>
            (<<"setup_complete", "true">> \in resp'[r].data <=> kv[TokenKey] # Absent)
       /\ DashboardArrives(r) =>
            (resp'[r].body = "dashboard:complete" <=> kv[TokenKey] # Absent)]_vars

\* C17 amended: /health reports oauth_configured = true exactly when
\* spotify_tokens is present, and setup_complete = true exactly when it is
\* present and API key, client id and client secret are all configured; the
\* dashboard reports 'complete' exactly when spotify_tokens is present.
C17_SetupComplete ==
  [][\A r \in Slots :
       /\ HealthArrives(r) =>
            /\ <<"oauth_configured", "true">> \in resp'[r].data <=> kv[TokenKey] # Absent
            /\ <<"setup_complete", "true">> \in resp'[r].data <=>
                 /\ kv[TokenKey] # Absent
                 /\ Truthy(env.API_KEY) /\ hasSpotifyCredentials(env)
            /\ <<"setup_complete", "true">> \in resp'[r].data
                 \/ <<"setup_complete", "false">> \in resp'[r].data
       /\ DashboardArrives(r) =>
            (resp'[r].body = "dashboard:complete" <=> kv[TokenKey] # Absent)]_vars

\* A health check of a worker that holds a record but has no API key.
C17_Witness ==
  \E r \in Slots :
    /\ Done(r) /\ log[r].handler = "/health"
    /\ ~Truthy(env.API_KEY) /\ kv[TokenKey] # Absent
    /\ <<"oauth_configured", "true">> \in resp[r].data
    /\ <<"setup_complete", "false">> \in resp[r].data

---------------------------------------------------------------------------
\* Concurrent callbacks.

UpstreamRejected ==
  Response(400, "Token exchange failed: Token exchange failed: Bad Request")

StateRejected == Response(400, "Invalid or expired state parameter")

\* The token record a callback with code c stores.
RecordOf(c) == [value |-> JSONstringify(TokenFor(c)), ttl |-> TokenTtl]

\* C18 as stated: of the callbacks that carry a state value issued by one
\* initiation, at most one finds its entry and goes on to the exchange.
C18_Claim ==
  \A s \in States : Cardinality(checked[s]) <= 1

\* Slots r1 and r2 hold two ended callbacks with the same state and code, r1
\* succeeded, the state value has not been issued again since r1 read it,
\* and the upstream has redeemed no other code (no third callback has
\* exchanged one).
DoubleSubmit(r1, r2) ==
  /\ r1 # r2 /\ Done(r1) /\ Done(r2)
  /\ log[r1].handler = "/callback" /\ log[r2].handler = "/callback"
  /\ callbackCheck(req[r1]) = NoResp /\ callbackCheck(req[r2]) = NoResp
  /\ req[r1].state = req[r2].state /\ req[r1].code = req[r2].code
  /\ Succeeded(r1) /\ r1 \in checked[req[r1].state]
  /\ usedCodes = {req[r1].code}

\* What holds of the store after a double submit that r1 won: no entry for
\* the state, and the record r1 wrote for as long as it has not expired.
DoubleSubmitStore(r1, r2) ==
  /\ kv[StateKey(req[r1].state)] = Absent
  /\ kv[TokenKey] = (IF writer = r1 THEN RecordOf(req[r1].code) ELSE Absent)
  /\ writer \in {0, r1}
  /\ ~HasOp(log[r2], "put") /\ ~HasOp(log[r2], "delete")

\* C19 as stated: of two callbacks with the same state and code one succeeds
\* and the other is answered 400 by the upstream's rejection of the code;
\* the store holds the winner's record and no entry for the state.
C19_Original ==
  \A r1, r2 \in Slots :
    DoubleSubmit(r1, r2) =>
      /\ ~Succeeded(r2) /\ resp[r2] = UpstreamRejected
      /\ DoubleSubmitStore(r1, r2)

\* C19 amended: of two callbacks with the same state and code at most one
\* succeeds, the upstream redeeming the code once; when one succeeds the
\* other is answered 400, by the upstream's rejection of the code when it
\* read the state entry before the winner deleted it, and by the state check
\* ('Invalid or expired state parameter') when it read it afterwards or after
\* its expiry; the loser writes nothing, and the store holds the winner's
\* record (until it expires) and no entry for the state.
C19_DoubleSubmit ==
  \A r1, r2 \in Slots :
    DoubleSubmit(r1, r2) =>
      /\ ~Succeeded(r2) /\ resp[r2] \in {UpstreamRejected, StateRejected}
      /\ resp[r2] = UpstreamRejected <=> HasOp(log[r2], "exchange")
      /\ DoubleSubmitStore(r1, r2)

\* Both callbacks read the same issue of the state; the upstream rejected
\* the second exchange.
C19_Witness ==
  \E r1, r2 \in Slots :
    /\ DoubleSubmit(r1, r2)
    /\ r2 \in checked[req[r2].state]
    /\ resp[r2] = UpstreamRejected
    /\ kv[TokenKey] = RecordOf(req[r1].code)
    /\ kv[StateKey(req[r1].state)] = Absent

\* C20: when a callback ends in success while another callback has ended in
\* success too (neither state value issued again since), the token record is
\* the payload of the one whose put was applied last, stored whole for
\* 3600 s, and the state entries of both are absent.
C20_LastWriterWins ==
  [][\A r1, r2 \in Slots :
       /\ r1 # r2 /\ pc[r1] = "cb_delete" /\ Succeeded(r1)' /\ Succeeded(r2)
       /\ r1 \in checked[req[r1].state] /\ r2 \in checked[req[r2].state]
       => /\ writer \in {r1, r2} /\ writer' = writer
          /\ kv'[TokenKey] = [value |-> JSONstringify(loc[writer].data), ttl |-> TokenTtl]
          /\ kv'[TokenKey] = RecordOf(req[writer].code)
          /\ kv'[StateKey(req[r1].state)] = Absent
          /\ kv'[StateKey(req[r2].state)] = Absent]_vars

\* Two callbacks consumed the same issue of a state with different codes,
\* so they overlapped; the record is that of the last put.
C20_Witness ==
  \E r1, r2 \in Slots :
    /\ r1 # r2 /\ Succeeded(r1) /\ Succeeded(r2)
    /\ req[r1].state = req[r2].state /\ req[r1].code # req[r2].code
    /\ {r1, r2} \subseteq checked[req[r1].state]
    /\ writer = r1 /\ kv[TokenKey] = RecordOf(req[r1].code)
    /\ kv[StateKey(req[r1].state)] = Absent

---------------------------------------------------------------------------
\* Who writes the store.

\* The request in slot r takes a step.
Acts(r) ==
  <<req[r], pc[r], loc[r], resp[r], log[r]>>' # <<req[r], pc[r], loc[r], resp[r], log[r]>>

\* The step is one of the store alone: entry k expires.
Expires(k) ==
  /\ \A r \in Slots : ~Acts(r)
  /\ kv[k] # Absent /\ kv' = [kv EXCEPT ![k] = Absent]

\* The request in slot r puts the token record in this step.
PutsTokens(r) == pc[r] = "cb_put" /\ pc'[r] = "cb_delete"

\* C21: the token record changes only by its expiry and by the put of a
\* callback that read its state entry as present (a value a POST /setup had
\* put) and whose exchange the upstream accepted; whenever the record is
\* present it is the payload of a code the upstream redeemed.
C21_TokenOnlyByCallback ==
  /\ [](kv[TokenKey] # Absent =>
          /\ \E c \in usedCodes : kv[TokenKey] = RecordOf(c)
          /\ \E s \in States : fate[s] # "never")
  /\ [][kv'[TokenKey] # kv[TokenKey] =>
          \/ Expires(TokenKey)
          \/ \E r \in Slots :
               /\ PutsTokens(r) /\ log[r].handler = "/callback"
               /\ loc[r].storedState = "pending"
               /\ fate[req[r].state] # "never"
               /\ log[r].ops = << <<"get", StateKey(req[r].state)>>,
                                  <<"exchange", req[r].code>> >>
               /\ req[r].code \in usedCodes
               /\ kv'[TokenKey] = RecordOf(req[r].code)]_vars

\* The record in the store is the one the callback in slot r has put.
C21_Witness ==
  \E r \in Slots :
    /\ pc[r] = "cb_delete" /\ writer = r
    /\ loc[r].storedState = "pending"
    /\ kv[TokenKey] = RecordOf(req[r].code)

\* C22: a callback deletes its state entry only after it has put the token
\* record: in no state has a callback deleted the entry without the put
\* before it, and at the delete the record is in the store.
C22_PutBeforeDelete ==
  \A r \in Slots :
    /\ \A i \in 1..Len(log[r].ops) :
         log[r].ops[i][1] = "delete" =>
           /\ log[r].ops[i] = <<"delete", StateKey(req[r].state)>>
           /\ \E j \in 1..(i - 1) : log[r].ops[j] = <<"put", TokenKey>>
    /\ pc[r] = "cb_put" => ~HasOp(log[r], "put") /\ ~HasOp(log[r], "delete")
    /\ pc[r] = "cb_delete" =>
         /\ HasOp(log[r], "put") /\ ~HasOp(log[r], "delete")
         /\ kv[TokenKey] # Absent

C22_Witness ==
  \E r \in Slots :
    /\ Succeeded(r)
    /\ log[r].ops = << <<"get", StateKey(req[r].state)>>, <<"exchange", req[r].code>>,
                       <<"put", TokenKey>>, <<"delete", StateKey(req[r].state)>> >>

\* The number of upstream calls the request logged in lg has made.
UpstreamCalls(lg) ==
  Cardinality({i \in 1..Len(lg.ops) : lg.ops[i][1] \in {"exchange", "api"}})

\* C23: every request makes at most one upstream call: a token exchange only
\* in /callback, a data call only in /now-playing and /recent, none
\* elsewhere, whether the call succeeds, is answered with an error or fails.
C23_NoRetry ==
  \A r \in Slots :
    /\ UpstreamCalls(log[r]) <= 1
    /\ HasOp(log[r], "exchange") => log[r].handler = "/callback"
    /\ HasOp(log[r], "api") => log[r].handler \in DataPaths
    /\ log[r].handler \notin DataPaths \cup {"/callback"} => UpstreamCalls(log[r]) = 0

\* A data request whose one call the upstream answered with an error.
C23_Witness ==
  \E r \in Slots :
    /\ Done(r) /\ log[r].handler = "/recent"
    /\ loc[r].status = 500 /\ UpstreamCalls(log[r]) = 1

\* C24: the store changes only by an entry's expiry, by a POST /setup with
\* credentials (one put of an oauth_state_ entry) and by a callback that
\* succeeds (the put of spotify_tokens, the delete of its oauth_state_
\* entry); every other request ends having written nothing, and the step
\* that answers it leaves the store as it was.
C24_FrameEffect ==
  [][/\ kv' # kv =>
          \/ \E k \in Keys : Expires(k)
          \/ \E r \in Slots, s \in States :
               /\ Free(r) /\ Initiated(r)' /\ hasSpotifyCredentials(env)
               /\ req'[r].method = "POST" /\ <<"state", s>> \in resp'[r].data
               /\ kv' = KVput(kv, StateKey(s), "pending", StateTtl)
          \/ \E r \in Slots :
               PutsTokens(r) /\ \A k \in Keys \ {TokenKey} : kv'[k] = kv[k]
          \/ \E r \in Slots :
               /\ pc[r] = "cb_delete" /\ Succeeded(r)'
               /\ kv' = KVdelete(kv, StateKey(req[r].state))
     /\ \A r \in Slots :
          Acts(r) /\ pc'[r] = "done" /\ ~Succeeded(r)' /\ ~Initiated(r)' =>
            /\ kv' = kv
            /\ ~HasOp(log'[r], "put") /\ ~HasOp(log'[r], "delete")]_vars

\* A data request answered with the upstream's 401 over a store that holds
\* the record and a pending state.
C24_Witness ==
  \E r \in Slots :
    /\ Done(r) /\ log[r].handler = "/now-playing" /\ resp[r].status = 401
    /\ loc[r].status = 401 /\ loc[r].tokens # NoData
    /\ kv[TokenKey] = [value |-> JSONstringify(loc[r].tokens), ttl |-> TokenTtl]
    /\ \E s \in States : kv[StateKey(s)].value = "pending"

\* C25: without client id or client secret a GET or POST /setup is answered
\* 302 to /credentials: no state value, no store operation, no redirect to
\* the upstream.
C25_SetupNeedsCredentials ==
  [][\A r \in Slots :
       Arrives(r) /\ log'[r].handler = "/setup" /\ ~hasSpotifyCredentials(env) =>
         /\ pc'[r] = "done" /\ resp'[r] = Redirect("/credentials")
         /\ resp'[r].data = {} /\ log'[r].ops = <<>>
         /\ kv' = kv /\ fate' = fate]_vars

C25_Witness ==
  \E r \in Slots :
    /\ Done(r) /\ req[r].path = "/setup" /\ req[r].method = "POST"
    /\ Truthy(env.SPOTIFY_CLIENT_ID) /\ ~Truthy(env.SPOTIFY_CLIENT_SECRET)
    /\ resp[r] = Redirect("/credentials") /\ kv = [k \in Keys |-> Absent]

\* C26: a data call the upstream answers outside 200..299 is relayed with
\* that status and a JSON body with an error field; a callback whose
\* exchange the upstream rejects is answered 400 with the upstream's status
\* text in the body.
C26_UpstreamErrors ==
  [][\A r \in Slots :
       /\ ( /\ pc[r] = "api_call" /\ pc'[r] = "done"
            /\ loc'[r].status \notin 200..299 )
          => /\ resp'[r].status = loc'[r].status
             /\ resp'[r].body = "json"
             /\ {p[1] : p \in resp'[r].data} = {"error"}
       /\ pc[r] = "cb_exchange" /\ pc'[r] = "done" =>
            /\ resp'[r].status = 400
            /\ Contains(resp'[r].body, "Token exchange failed: ")
            /\ Contains(resp'[r].body, "Bad Request")]_vars

C26_Witness ==
  \E r \in Slots :
    /\ Done(r) /\ log[r].handler = "/recent" /\ loc[r].status = 401
    /\ resp[r] = Json(401, {<<"error", "Failed to fetch recent tracks">>})

\* C27: a callback without a (non-empty) error parameter whose code or state
\* is missing or empty is answered 400 'Missing authorization code or state'
\* with no store operation and no exchange; the error parameter is tested
\* before that, the state lookup comes after it, the exchange after the
\* lookup.
C27_MissingParameters ==
  [][\A r \in Slots :
       CallbackArrives(r) =>
         /\ ( /\ ~Truthy(req'[r].error)
              /\ ~Truthy(req'[r].code) \/ ~Truthy(req'[r].state) )
            => /\ pc'[r] = "done"
               /\ resp'[r] = Response(400, "Missing authorization code or state")
               /\ log'[r].ops = <<>>
               /\ kv' = kv /\ usedCodes' = usedCodes
         /\ Truthy(req'[r].error) =>
              resp'[r] = Response(400, "OAuth Error: " \o req'[r].error)
         /\ log'[r].ops # <<>> =>
              /\ ~Truthy(req'[r].error) /\ Truthy(req'[r].code) /\ Truthy(req'[r].state)
              /\ log'[r].ops = << <<"get", StateKey(req'[r].state)>> >>
         /\ pc'[r] = "cb_exchange" <=>
              /\ log'[r].ops # <<>>
              /\ kv[StateKey(req'[r].state)] # Absent]_vars

\* A callback with an empty code and a state that is pending.
C27_Witness ==
  \E r \in Slots :
    /\ Done(r) /\ log[r].handler = "/callback"
    /\ req[r].error = NULL /\ req[r].code = "" /\ Truthy(req[r].state)
    /\ kv[StateKey(req[r].state)].value = "pending"
    /\ resp[r] = Response(400, "Missing authorization code or state")

\* C30: once a callback has read its state entry as present and its exchange
\* has succeeded, its put and its delete go ahead whatever has become of the
\* entry: the put stores its payload and touches no other entry, the delete
\* removes at most its own state entry (nothing, when that is absent
\* already), and the answer is the success page.
C30_OutcomeFixedByRead ==
  [][\A r \in Slots :
       /\ pc[r] = "cb_put" /\ Acts(r) =>
            /\ loc[r].storedState = "pending"
            /\ pc'[r] = "cb_delete"
            /\ kv' = KVput(kv, TokenKey, JSONstringify(TokenFor(req[r].code)), TokenTtl)
       /\ pc[r] = "cb_delete" /\ Acts(r) =>
            /\ Succeeded(r)'
            /\ kv' = KVdelete(kv, StateKey(req[r].state))
            /\ kv[StateKey(req[r].state)] = Absent => kv' = kv]_vars

\* A callback that succeeded although its state entry expired after it had
\* read it.
C30_Witness ==
  \E r \in Slots :
    /\ Succeeded(r) /\ r \in checked[req[r].state]
    /\ fate[req[r].state] = "expired"
    /\ writer = r /\ kv[TokenKey] = RecordOf(req[r].code)

---------------------------------------------------------------------------
\* The life of a state entry.

\* C28: under the store's expiry every state entry that is present is
\* absent at some later time (deleted by the callback that consumed it, or
\* expired), and an absent entry becomes present only by the put of a POST
\* /setup that generated its value, never by a step of a callback.
C28_StateEntriesGoAway ==
  /\ \A s \in States : (kv[StateKey(s)] # Absent) ~> (kv[StateKey(s)] = Absent)
  /\ [][\A s \in States :
          kv[StateKey(s)] = Absent /\ kv'[StateKey(s)] # Absent =>
            \E r \in Slots :
              /\ Free(r) /\ Initiated(r)' /\ req'[r].method = "POST"
              /\ <<"state", s>> \in resp'[r].data]_vars

\* One state entry has expired and another has been consumed by a callback.
C28_Witness ==
  \E s1, s2 \in States :
    /\ fate[s1] = "expired" /\ kv[StateKey(s1)] = Absent
    /\ fate[s2] = "consumed" /\ kv[StateKey(s2)] = Absent

---------------------------------------------------------------------------
\* The redirect URI of Initiate and of the exchange.

\* The callback in slot r has sent a code to the upstream.
Sent(r) ==
  /\ req[r].path = "/callback"
  /\ \E i \in 1..Len(log[r].ops) :
       log[r].ops[i][1] = "exchange" /\ log[r].ops[i][2] \in Codes

\* The value of parameter name in a query.
ParamOf(params, name) == (CHOOSE p \in params : p[1] = name)[2]

\* What the upstream reads from an encoded parameter.
RECURSIVE decodeURIComponent(_)
decodeURIComponent(s) ==
  IF s = "" THEN ""
  ELSE IF Len(s) >= 3 /\ SubSeq(s, 1, 3) = "%3A"
    THEN ":" \o decodeURIComponent(SubSeq(s, 4, Len(s)))
  ELSE IF Len(s) >= 3 /\ SubSeq(s, 1, 3) = "%2F"
    THEN "/" \o decodeURIComponent(SubSeq(s, 4, Len(s)))
  ELSE SubSeq(s, 1, 1) \o decodeURIComponent(SubSeq(s, 2, Len(s)))

\* The redirect URI in the authorization URL of the Initiate that issued
\* state value s.
IssuedUri(s) == decodeURIComponent(ParamOf(issued[s].params, "redirect_uri"))

\* C29 as stated: the redirect URI a callback sends in its exchange is the
\* redirect URI in the authorization URL of the Initiate that issued the
\* callback's state.
C29_Original ==
  \A r \in Slots : Sent(r) => loc[r].redirectUri = IssuedUri(req[r].state)

\* C29: the redirect URI a callback sends in its exchange is the origin of
\* the callback request plus /callback, the redirect URI in the authorization
\* URL is the origin of the Initiate request plus /callback, and the two are
\* equal exactly when the callback is received on the origin of the Initiate
\* that issued its state.
C29_RedirectUriByOrigin ==
  \A r \in Slots :
    Sent(r) =>
      /\ loc[r].redirectUri = req[r].origin \o "/callback"
      /\ IssuedUri(req[r].state) = issued[req[r].state].origin \o "/callback"
      /\ loc[r].redirectUri = IssuedUri(req[r].state)
           <=> req[r].origin = issued[req[r].state].origin

\* A callback received on another origin than the Initiate that issued its
\* state has sent its code to the upstream.
C29_Witness ==
  \E r \in Slots :
    /\ Sent(r)
    /\ issued[req[r].state].origin \in Origins \ {req[r].origin}
============================================================================
